---- MODULE Spec2Model ----
(***************************************************************************)
(* The capture pipeline of the ESP32 drawing UI: TouchScreen of            *)
(* esp32/main_final.py (restricted drawing bound, FixedWindow extraction,  *)
(* plus-shaped brush) and of esp32/mainESPold.py (whole-canvas drawing,    *)
(* BoundingBoxScaled extraction, single-pixel brush).                      *)
(*                                                                         *)
(* A Python bytearray that is returned or written (a Sample, a serial      *)
(* frame) is a sequence: b[i] is written b[i + 1]. The 9600-byte           *)
(* FrameBuffer is held by its nonzero bytes: a function from byte index    *)
(* (0-based, as in the code) to byte value 1..255, every index outside its *)
(* domain being a zero byte.                                               *)
(***************************************************************************)
EXTENDS Integers, Sequences, FiniteSets, TLC

VARIABLES
    variant,          \* which program runs: "final" (main_final.py) or "old" (mainESPold.py)
    buffer,           \* self.buffer, bytearray(9600), by its nonzero bytes
    last_x, last_y,   \* self.last_x, self.last_y (None when absent)
    freeze,           \* self.freeze
    Touch_items,      \* self.Touch_items, list of TouchArea
    Touch_callbacks,  \* self.Touch_callbacks, list of bound methods
    uart,             \* the data_bytes argument of every uart.write call, in order
    pc,               \* position of the running touch callback: "idle" when none runs
    escaped,          \* an exception has propagated out of touch_handler
    penDown,          \* environment: the stylus is on the panel
    nEvents,          \* number of touch interrupts delivered so far
    log,              \* history: what the last handler step did
    saveRec,          \* history: the last save action
    locals            \* the local variables of the running draw_line call

\* log: op, the step ("init", "touch", "draw_line", "set_pixel", "get_pixel",
\*   ...); for a touch:
\*   newStroke, no touch since the last release; prev_x, prev_y, the cursor
\*   before; frozen, the latch as the handler found it; raw_x, raw_y, the
\*   arguments; x, y, the transposed point; invoked, the callbacks called;
\*   forwarded, process_drawing was called; line, draw_line ran; pts, the
\*   arguments of the draw_point calls in order. For a get_pixel: value, what
\*   it returned.
\* saveRec: state ("none", "running", "done", "aborted"); fb0, the buffer and
\*   writes0, the number of uart.write calls when save_mnist was entered;
\*   outcome ("none", "NoDrawingFound", "sent", "write_failed"); sample, the
\*   Sample handed to send_uart_data; bounds, min_x, max_x, min_y and max_y
\*   after the scan of process_mnist_data.

vars == <<variant, buffer, last_x, last_y, freeze, Touch_items, Touch_callbacks,
          uart, pc, escaped, penDown, nEvents, log, saveRec, locals>>

----------------------------------------------------------------------------
(* Program constants *)

draw_area == 28
d_x == 140
d_y == 100

\* Python's None in last_x / last_y / min_x ...: a value no coordinate takes.
None == 0 - 1000000

(* Bounds of the model *)

\* touch interrupts delivered in a behaviour of Spec
MaxEvents == 3

\* SpecLine: the largest row of the endpoints of draw_line
GridMax == 5

\* SpecPixel: calls of set_pixel
MaxPixelOps == 2

\* SpecExtract: set pixels of the FrameBuffer an extractor is applied to
MaxInk == 2

----------------------------------------------------------------------------
(* Integer helpers: Python's abs, min, max, and the bit operators on bytes *)

Abs(a) == IF a < 0 THEN 0 - a ELSE a
MinOf(a, b) == IF a <= b THEN a ELSE b
MaxOf(a, b) == IF a >= b THEN a ELSE b

Bit(b, k) == (b \div (2 ^ k)) % 2

RECURSIVE BitOrFrom(_, _, _)
BitOrFrom(a, b, k) ==
    IF k > 7 THEN 0
    ELSE (IF Bit(a, k) = 1 \/ Bit(b, k) = 1 THEN 2 ^ k ELSE 0) + BitOrFrom(a, b, k + 1)

\* a | b on byte values
BitOr(a, b) == BitOrFrom(a, b, 0)

RECURSIVE BitAndFrom(_, _, _)
BitAndFrom(a, b, k) ==
    IF k > 7 THEN 0
    ELSE (IF Bit(a, k) = 1 /\ Bit(b, k) = 1 THEN 2 ^ k ELSE 0) + BitAndFrom(a, b, k + 1)

\* a & b on byte values
BitAnd(a, b) == BitAndFrom(a, b, 0)

\* state << k, state a Python bool
ShiftLeft(state, k) == (IF state THEN 1 ELSE 0) * (2 ^ k)

ZeroBytes(n) == [i \in 1..n |-> 0]

Least(S) == CHOOSE m \in S : \A n \in S : m <= n
Greatest(S) == CHOOSE m \in S : \A n \in S : m >= n

\* TRUE, once v is evaluated: as a conjunct of a loop's exit test it has the
\* loop's accumulator computed at each iteration instead of at the end.
Evaluated(v) == v = v

----------------------------------------------------------------------------
(* FrameBuffer accessors *)

\* bytearray(9600): every byte zero
EmptyBuffer == [i \in {} |-> 0]

\* buf[i]
ByteAt(buf, i) == IF i \in DOMAIN buf THEN buf[i] ELSE 0

\* buf after buf[i] = val
WithByte(buf, i, val) ==
    IF val = 0
    THEN [j \in DOMAIN buf \ {i} |-> buf[j]]
    ELSE [j \in DOMAIN buf \cup {i} |-> IF j = i THEN val ELSE buf[j]]

\* The subscripts of self.buffer that set_pixel(x, y) and get_pixel(x, y)
\* evaluate: none when the bounds test fails
PixelIndex(x, y) ==
    IF 0 <= x /\ x < 320 /\ 0 <= y /\ y < 240 THEN {(y * 320 + x) \div 8} ELSE {}

\* set_pixel without its bounds test, the subscript taken modulo the length of
\* the buffer
set_pixel_NoBoundsTest(buf, x, y, state) ==
    WithByte(buf, ((y * 320 + x) \div 8) % 9600,
             BitOr(ByteAt(buf, ((y * 320 + x) \div 8) % 9600),
                   ShiftLeft(state, 7 - ((y * 320 + x) % 8))))

\* set_pixel with the bits of a byte numbered from its low end
set_pixel_LSBFirst(buf, x, y, state) ==
    IF 0 <= x /\ x < 320 /\ 0 <= y /\ y < 240
    THEN LET idx == y * 320 + x
         IN WithByte(buf, idx \div 8,
                     BitOr(ByteAt(buf, idx \div 8), ShiftLeft(state, idx % 8)))
    ELSE buf

set_pixel(buf, x, y, state) ==
    IF 0 <= x /\ x < 320 /\ 0 <= y /\ y < 240
    THEN LET idx == y * 320 + x
         IN WithByte(buf, idx \div 8,
                     BitOr(ByteAt(buf, idx \div 8), ShiftLeft(state, 7 - (idx % 8))))
    ELSE buf

get_pixel(buf, x, y) ==
    IF 0 <= x /\ x < 320 /\ 0 <= y /\ y < 240
    THEN LET idx == y * 320 + x
         IN BitAnd(ByteAt(buf, idx \div 8), 2 ^ (7 - (idx % 8))) # 0
    ELSE FALSE

----------------------------------------------------------------------------
(* Drawing pipeline *)

\* The plus-shaped brush without the bounds test of draw_point
draw_point_final_NoBoundsTest(buf, x, y) ==
    set_pixel(set_pixel(set_pixel(set_pixel(set_pixel(buf, x, y, TRUE), x + 1, y, TRUE),
                                  x - 1, y, TRUE), x, y + 1, TRUE), x, y - 1, TRUE)

\* main_final.py: the plus-shaped brush
draw_point_final(buf, x, y) ==
    IF 0 <= x /\ x < 320 /\ 0 <= y /\ y < 240
    THEN LET b1 == set_pixel(buf, x, y, TRUE)
             b2 == set_pixel(b1, x + 1, y, TRUE)
             b3 == set_pixel(b2, x - 1, y, TRUE)
             b4 == set_pixel(b3, x, y + 1, TRUE)
         IN set_pixel(b4, x, y - 1, TRUE)
    ELSE buf

\* mainESPold.py: the single-pixel brush
draw_point_old(buf, x, y) ==
    IF 0 <= x /\ x < 320 /\ 0 <= y /\ y < 240
    THEN set_pixel(buf, x, y, TRUE)
    ELSE buf

draw_point(v, buf, x, y) ==
    IF v = "final" THEN draw_point_final(buf, x, y) ELSE draw_point_old(buf, x, y)

\* One iteration of the while loop of draw_line from the cursor (lx, ly) with
\* error term err: self.last_x, self.last_y and err after the two tests on e2
\* The first test on e2 never moving the cursor
StepX_Stay(lx, dy, sx, err) == lx

StepX(lx, dy, sx, err) == IF 2 * err > 0 - dy THEN lx + sx ELSE lx

StepY(ly, dx, sy, err) == IF 2 * err < dx THEN ly + sy ELSE ly

StepErr(dx, dy, err) ==
    (IF 2 * err > 0 - dy THEN err - dy ELSE err) + (IF 2 * err < dx THEN dx ELSE 0)

\* The while loop of draw_line, at the break test: (lx, ly) is the cursor, buf
\* the buffer after self.draw_point(self.last_x, self.last_y), and pts the
\* arguments of the draw_point calls made so far. The result carries the
\* buffer and the cursor at the break.
RECURSIVE draw_line_loop(_, _, _, _, _, _, _, _, _, _, _, _)
draw_line_loop(v, buf, pts, lx, ly, x, y, dx, dy, sx, sy, err) ==
    IF Evaluated(<<buf, pts>>) /\ lx = x /\ ly = y
    THEN [buffer |-> buf, last_x |-> lx, last_y |-> ly, pts |-> pts]
    ELSE draw_line_loop(v,
                        draw_point(v, buf, StepX(lx, dy, sx, err), StepY(ly, dx, sy, err)),
                        Append(pts, <<StepX(lx, dy, sx, err), StepY(ly, dx, sy, err)>>),
                        StepX(lx, dy, sx, err), StepY(ly, dx, sy, err),
                        x, y, dx, dy, sx, sy, StepErr(dx, dy, err))

\* draw_line without its loop: the two endpoints are drawn and nothing between
draw_line_EndpointsOnly(v, buf, lx, ly, x, y) ==
    [buffer |-> draw_point(v, draw_point(v, buf, lx, ly), x, y),
     last_x |-> x, last_y |-> y, pts |-> << <<lx, ly>>, <<x, y>> >>]

draw_line(v, buf, lx, ly, x, y) ==
    draw_line_loop(v, draw_point(v, buf, lx, ly), <<<<lx, ly>>>>, lx, ly, x, y,
                   Abs(x - lx),                        \* dx
                   Abs(y - ly),                        \* dy
                   IF x > lx THEN 1 ELSE 0 - 1,        \* sx
                   IF y > ly THEN 1 ELSE 0 - 1,        \* sy
                   Abs(x - lx) - Abs(y - ly))          \* err = dx - dy

\* What a call of process_drawing leaves: the buffer, the cursor set by
\* self.last_x, self.last_y = x, y, the draw_point calls made, and whether
\* draw_line ran
Drawn(buf, pts, line, x, y) ==
    [buffer |-> buf, last_x |-> x, last_y |-> y, pts |-> pts, line |-> line]

DrawnLine(l, x, y) == Drawn(l.buffer, l.pts, TRUE, x, y)

process_drawing(v, buf, lx, ly, x, y) ==
    IF lx = None
    THEN Drawn(draw_point(v, buf, x, y), <<<<x, y>>>>, FALSE, x, y)
    ELSE DrawnLine(draw_line(v, buf, lx, ly, x, y), x, y)

\* No call of process_drawing: buffer and cursor as they were
NotDrawn(buf, lx, ly) ==
    [buffer |-> buf, last_x |-> lx, last_y |-> ly, pts |-> <<>>, line |-> FALSE]

----------------------------------------------------------------------------
(* UI regions *)

TouchArea(x, y, w, h) == [x_range |-> x..(x + w - 1), y_range |-> y..(y + h - 1)]

\* The save button registered by initialize_ui
SaveButton(v) ==
    IF v = "final" THEN TouchArea(248, 176, 64, 64) ELSE TouchArea(280, 208, 32, 32)

\* The hit-test loop of touch_handler from list position i (1-based here):
\* the position of the first area containing (x, y), 0 when the loop ends
\* without a match.
RECURSIVE FirstHitFrom(_, _, _, _)
FirstHitFrom(items, i, x, y) ==
    IF i > Len(items) THEN 0
    ELSE IF x \in items[i].x_range /\ y \in items[i].y_range THEN i
    ELSE FirstHitFrom(items, i + 1, x, y)

\* The hit-test loop without its return: the last matching area wins
RECURSIVE LastHitFrom(_, _, _, _)
LastHitFrom(items, i, x, y) ==
    IF i < 1 THEN 0
    ELSE IF x \in items[i].x_range /\ y \in items[i].y_range THEN i
    ELSE LastHitFrom(items, i - 1, x, y)

FirstHit_Last(items, x, y) == LastHitFrom(items, Len(items), x, y)

FirstHit(items, x, y) == FirstHitFrom(items, 1, x, y)

\* The test that guards process_drawing in touch_handler
InDrawBound(v, x, y) ==
    IF v = "final"
    THEN d_x < x /\ x < d_x + draw_area /\ d_y < y /\ y < d_y + draw_area
    ELSE TRUE

----------------------------------------------------------------------------
(* Region extraction and transmission *)

\* The linear indices y*320+x of the pixels for which get_pixel is true. The
\* scans below visit the canvas in increasing linear index (for y, for x) and
\* act only where get_pixel is true.
InkIndices(buf) ==
    UNION { { 8 * b + k : k \in { j \in 0..7 :
                get_pixel(buf, (8 * b + j) % 320, (8 * b + j) \div 320) } }
            : b \in DOMAIN buf }

\* Python truth of a bound: None and 0 are both false
Truthy(m) == m # None /\ m # 0

\* The body of the bounds scan of process_mnist_data at a set pixel (x, y)
ScanUpdate(acc, x, y) ==
    [min_x |-> IF Truthy(acc.min_x) THEN MinOf(x, acc.min_x) ELSE x,
     max_x |-> IF Truthy(acc.max_x) THEN MaxOf(x, acc.max_x) ELSE x,
     min_y |-> IF Truthy(acc.min_y) THEN MinOf(y, acc.min_y) ELSE y,
     max_y |-> IF Truthy(acc.max_y) THEN MaxOf(y, acc.max_y) ELSE y]

\* The bounds after the loop body at (x, y)
ScanPixel(buf, x, y, acc) ==
    IF get_pixel(buf, x, y) THEN ScanUpdate(acc, x, y) ELSE acc

\* The inner loop (for x) of the bounds scan in row y, from column x to xhi
RECURSIVE ScanRow(_, _, _, _, _)
ScanRow(buf, y, x, xhi, acc) ==
    IF Evaluated(acc) /\ x > xhi THEN acc
    ELSE ScanRow(buf, y, x + 1, xhi, ScanPixel(buf, x, y, acc))

\* The outer loop (for y) of the bounds scan, from row y to yhi
RECURSIVE ScanRows(_, _, _, _, _, _)
ScanRows(buf, y, yhi, xlo, xhi, acc) ==
    IF Evaluated(acc) /\ y > yhi THEN acc
    ELSE ScanRows(buf, y + 1, yhi, xlo, xhi, ScanRow(buf, y, xlo, xhi, acc))

ScanRange(buf, rows, cols) ==
    ScanRows(buf, Least(rows), Greatest(rows), Least(cols), Greatest(cols),
             [min_x |-> None, max_x |-> None, min_y |-> None, max_y |-> None])

ScanInk(buf, ink) ==
    IF ink = {}
    THEN [min_x |-> None, max_x |-> None, min_y |-> None, max_y |-> None]
    ELSE ScanRange(buf, { i \div 320 : i \in ink }, { i % 320 : i \in ink })

\* The bounds scan of process_mnist_data: for y in range(240), for x in
\* range(320). The loops are run over the rows and columns that hold a set
\* pixel; in every other iteration get_pixel is false and nothing is assigned.
ScanBounds(buf) == ScanInk(buf, InkIndices(buf))

\* The packing step with the bits of a byte numbered from its low end
PackBit_LSBFirst(byte, bit_index, pixel) ==
    IF pixel THEN BitOr(byte, 2 ^ (bit_index % 8)) ELSE byte

\* The packing step of extract_mnist_region, on the byte it writes:
\* result[byte_index] |= (1 << bit_offset) when the pixel is set
PackBit(byte, bit_index, pixel) ==
    IF pixel THEN BitOr(byte, 2 ^ (7 - (bit_index % 8))) ELSE byte

\* extract_mnist_region with self.d_x = ox and self.d_y = oy: the pixel the
\* loop reads at bit_index k, row-major over the window (y = oy + k div 28,
\* x = ox + k mod 28)
WindowPixelAt(buf, ox, oy, k) ==
    get_pixel(buf, ox + (k % draw_area), oy + (k \div draw_area))

\* The iterations bit_index = k .. last of the loop, all writing one byte
RECURSIVE ExtractByteAt(_, _, _, _, _, _)
ExtractByteAt(buf, ox, oy, byte, k, last) ==
    IF k > last THEN byte
    ELSE ExtractByteAt(buf, ox, oy, PackBit(byte, k, WindowPixelAt(buf, ox, oy, k)),
                       k + 1, last)

\* extract_mnist_region with self.d_x = ox and self.d_y = oy: the 784
\* iterations grouped by the byte they write
ExtractWindow(buf, ox, oy) ==
    [n \in 1..98 |-> ExtractByteAt(buf, ox, oy, 0, 8 * (n - 1), 8 * (n - 1) + 7)]

\* The same with the window origin of the program, (d_x, d_y)
WindowPixel(buf, k) == WindowPixelAt(buf, d_x, d_y, k)

ExtractByte(buf, byte, k, last) == ExtractByteAt(buf, d_x, d_y, byte, k, last)

extract_mnist_region(buf) == ExtractWindow(buf, d_x, d_y)

\* int() of num/den: truncation toward zero
TruncDiv(num, den) == IF num >= 0 THEN num \div den ELSE 0 - ((0 - num) \div den)

\* int(start + k * (src / 28)), computed exactly. src / 28 and the product are
\* floating-point values in the code; for the box sizes 10 <= src <= 61 that
\* the drawings of this model give, the sum truncates to the same integer in
\* single and in double precision as the exact value does.
SrcCoord(start, k, src) == TruncDiv(28 * start + k * src, 28)

\* scale_and_convert_to_bytearray: the pixel sampled for destination (x, y)
ScaledPixel(buf, x_start, y_start, src_width, src_height, x, y) ==
    LET src_x == SrcCoord(x_start, x, src_width)
        src_y == SrcCoord(y_start, y, src_height)
    IN IF 0 <= src_x /\ src_x < 320 /\ 0 <= src_y /\ src_y < 240
       THEN get_pixel(buf, src_x, src_y) ELSE FALSE

\* The packing step of the scaled extractor with the bits of a byte numbered
\* from its low end
PackScaled_LSBFirst(byte, bit_index, pixel) ==
    IF pixel THEN BitOr(byte, 2 ^ (bit_index % 8)) ELSE byte

\* The packing step of scale_and_convert_to_bytearray, on the byte it writes:
\* bit_offset = 7 - (bit_index % 8); result[byte_index] |= (1 << bit_offset)
PackScaled(byte, bit_index, pixel) ==
    IF pixel THEN BitOr(byte, 2 ^ (7 - (bit_index % 8))) ELSE byte

RECURSIVE ScaleByte(_, _, _, _, _, _, _, _)
ScaleByte(buf, x_start, y_start, src_width, src_height, byte, k, last) ==
    IF k > last THEN byte
    ELSE ScaleByte(buf, x_start, y_start, src_width, src_height,
                   PackScaled(byte, k, ScaledPixel(buf, x_start, y_start, src_width,
                                                   src_height, k % 28, k \div 28)),
                   k + 1, last)

\* scale_and_convert_to_bytearray: the 784 iterations grouped by the byte they
\* write (the copy written to tmp.txt is not part of the state)
scale_and_convert_to_bytearray(buf, x_start, y_start, src_width, src_height) ==
    [n \in 1..98 |-> ScaleByte(buf, x_start, y_start, src_width, src_height, 0,
                               8 * (n - 1), 8 * (n - 1) + 7)]

\* No "No drawing found" test: the save goes on whatever the scan found
NoDrawing_Never(v, b) == FALSE

\* The "No drawing found" test of process_mnist_data
NoDrawing(v, b) == IF v = "final" THEN b.min_x = None ELSE ~Truthy(b.min_x)

\* The Sample process_mnist_data hands to send_uart_data, b being the bounds
ExtractSample(v, buf, b) ==
    IF v = "final" THEN extract_mnist_region(buf)
    ELSE scale_and_convert_to_bytearray(buf, b.min_x - 5, b.min_y - 5,
                                        (b.max_x - b.min_x) + 10,    \* width + 10
                                        (b.max_y - b.min_y) + 10)    \* height + 10

\* send_uart_data: the data_bytes it passes to uart.write
send_uart_data(v, mnist_data) ==
    IF v = "final" THEN <<0>> \o mnist_data ELSE mnist_data

Processed(v, b, sample) ==
    [found |-> TRUE, bounds |-> b, sample |-> sample,
     data_bytes |-> send_uart_data(v, sample)]

\* process_mnist_data after the bounds scan, up to the uart.write call
AfterScan(v, buf, b) ==
    IF NoDrawing(v, b)
    THEN [found |-> FALSE, bounds |-> b, sample |-> <<>>, data_bytes |-> <<>>]
    ELSE Processed(v, b, ExtractSample(v, buf, b))

process_mnist_data(v, buf) == AfterScan(v, buf, ScanBounds(buf))

----------------------------------------------------------------------------
(* touch_handler *)

\* What one call of touch_handler does up to the point where it returns or
\* calls a region's callback: whether it found the latch set, the transposed
\* point, the callbacks it invokes (list positions, 1-based), whether it
\* called process_drawing, and what the drawing (d) left.
Handled(frozen, x, y, invoked, forwarded, d) ==
    [frozen |-> frozen, x |-> x, y |-> y, invoked |-> invoked,
     forwarded |-> forwarded, line |-> d.line, pts |-> d.pts,
     buffer |-> d.buffer, last_x |-> d.last_x, last_y |-> d.last_y]

\* Routed without the test of self.freeze
Routed_NoFreezeTest(v, frz, items, buf, lx, ly, x, y) ==
    IF FirstHit(items, x, y) # 0
    THEN Handled(FALSE, x, y, <<FirstHit(items, x, y)>>, FALSE, NotDrawn(buf, lx, ly))
    ELSE IF InDrawBound(v, x, y)
         THEN Handled(FALSE, x, y, <<>>, TRUE, process_drawing(v, buf, lx, ly, x, y))
         ELSE Handled(FALSE, x, y, <<>>, FALSE, NotDrawn(buf, lx, ly))

\* touch_handler after x, y = y, x
Routed(v, frz, items, buf, lx, ly, x, y) ==
    IF frz
    THEN Handled(TRUE, x, y, <<>>, FALSE, NotDrawn(buf, lx, ly))
    ELSE IF FirstHit(items, x, y) # 0
         THEN Handled(FALSE, x, y, <<FirstHit(items, x, y)>>, FALSE, NotDrawn(buf, lx, ly))
         ELSE IF InDrawBound(v, x, y)
              THEN Handled(FALSE, x, y, <<>>, TRUE, process_drawing(v, buf, lx, ly, x, y))
              ELSE Handled(FALSE, x, y, <<>>, FALSE, NotDrawn(buf, lx, ly))

touch_handler(v, frz, items, buf, lx, ly, xr, yr) ==
    Routed(v, frz, items, buf, lx, ly, yr, xr)

----------------------------------------------------------------------------
(* The state machine *)

\* The points the panel reports, given by their transposed position
\* (x, y) = (yr, xr): for main_final.py the save button, the corners and the
\* inside of the drawing window and one point outside it; for mainESPold.py
\* the save button and canvas points, one of them in column 0.
TouchedPoints(v) ==
    IF v = "final"
    THEN { <<290, 210>>, <<150, 110>>, <<141, 101>>, <<140, 100>>, <<167, 127>>,
           <<10, 10>> }
    ELSE { <<290, 210>>, <<0, 5>>, <<10, 10>>, <<3, 0>>, <<12, 7>> }

RawTouches(v) == { <<p[2], p[1]>> : p \in TouchedPoints(v) }

\* log before any handler has run
NoLog == [op |-> "init", newStroke |-> FALSE, prev_x |-> None, prev_y |-> None,
          frozen |-> FALSE, raw_x |-> 0, raw_y |-> 0, x |-> 0, y |-> 0, state |-> FALSE,
          invoked |-> <<>>, forwarded |-> FALSE, line |-> FALSE, pts |-> <<>>,
          value |-> FALSE]

\* The bounds before the scan of process_mnist_data
NoBounds == [min_x |-> None, max_x |-> None, min_y |-> None, max_y |-> None]

\* No draw_line call is running
NoLocals == [x |-> None, y |-> None, dx |-> 0, dy |-> 0, sx |-> 0, sy |-> 0, err |-> 0]

NoSave == [state |-> "none", fb0 |-> EmptyBuffer, writes0 |-> 0,
           outcome |-> "none", sample |-> <<>>, bounds |-> NoBounds]

Init ==
    /\ variant \in {"final", "old"}
    /\ buffer = EmptyBuffer
    /\ last_x = None
    /\ last_y = None
    /\ freeze = FALSE
    /\ Touch_items = <<SaveButton(variant)>>
    /\ Touch_callbacks = <<"save_mnist">>
    /\ uart = <<>>
    /\ pc = "idle"
    /\ escaped = FALSE
    /\ penDown = FALSE
    /\ nEvents = 0
    /\ log = NoLog
    /\ saveRec = NoSave
    /\ locals = NoLocals

\* A call of touch_handler in which save_mnist does not set self.freeze
TouchEffect_NoLatch(xr, yr, e) ==
    /\ buffer' = e.buffer
    /\ last_x' = e.last_x
    /\ last_y' = e.last_y
    /\ log' = [op |-> "touch", newStroke |-> ~penDown,
               prev_x |-> last_x, prev_y |-> last_y,
               frozen |-> e.frozen, raw_x |-> xr, raw_y |-> yr, x |-> e.x, y |-> e.y,
               state |-> FALSE, invoked |-> e.invoked,
               forwarded |-> e.forwarded, line |-> e.line, pts |-> e.pts,
               value |-> FALSE]
    /\ IF e.invoked # <<>>
       THEN /\ pc' = "process"
            /\ saveRec' = [state |-> "running", fb0 |-> buffer, writes0 |-> Len(uart),
                           outcome |-> "none", sample |-> <<>>, bounds |-> NoBounds]
            /\ UNCHANGED freeze
       ELSE UNCHANGED <<freeze, pc, saveRec>>

\* The state a call of touch_handler leaves, e being what it did. When it
\* called save_mnist the step ends after self.freeze = True.
TouchEffect(xr, yr, e) ==
    /\ buffer' = e.buffer
    /\ last_x' = e.last_x
    /\ last_y' = e.last_y
    /\ log' = [op |-> "touch", newStroke |-> ~penDown,
               prev_x |-> last_x, prev_y |-> last_y,
               frozen |-> e.frozen, raw_x |-> xr, raw_y |-> yr, x |-> e.x, y |-> e.y,
               state |-> FALSE, invoked |-> e.invoked,
               forwarded |-> e.forwarded, line |-> e.line, pts |-> e.pts,
               value |-> FALSE]
    /\ IF e.invoked # <<>>
       THEN /\ freeze' = TRUE
            /\ pc' = "process"
            /\ saveRec' = [state |-> "running", fb0 |-> buffer, writes0 |-> Len(uart),
                           outcome |-> "none", sample |-> <<>>, bounds |-> NoBounds]
       ELSE UNCHANGED <<freeze, pc, saveRec>>

\* The touch interrupt: touch_handler(xr, yr). When it calls save_mnist, the
\* rest of the callback follows in SaveProcess, SaveReset and SaveEnd, between
\* which the interrupt may fire again.
Touch(xr, yr) ==
    /\ nEvents < MaxEvents
    /\ TouchEffect(xr, yr, touch_handler(variant, freeze, Touch_items, buffer,
                                         last_x, last_y, xr, yr))
    /\ penDown' = TRUE
    /\ nEvents' = nEvents + 1
    /\ UNCHANGED <<locals, variant, Touch_items, Touch_callbacks, uart, escaped>>

\* The stylus leaves the panel: no handler runs.
Release ==
    /\ penDown
    /\ penDown' = FALSE
    /\ UNCHANGED <<locals, variant, buffer, last_x, last_y, freeze, Touch_items, Touch_callbacks,
                   uart, pc, escaped, nEvents, log, saveRec>>

\* process_mnist_data with two calls of uart.write for one Sample
ProcessEffect_WritesTwice(r) ==
    IF ~r.found
    THEN /\ pc' = "reset"
         /\ saveRec' = [saveRec EXCEPT !.outcome = "NoDrawingFound", !.bounds = r.bounds]
         /\ UNCHANGED <<uart, escaped>>
    ELSE /\ uart' = Append(Append(uart, r.data_bytes), r.data_bytes)
         /\ pc' = "reset"
         /\ saveRec' = [saveRec EXCEPT !.outcome = "sent", !.sample = r.sample,
                                       !.bounds = r.bounds]
         /\ UNCHANGED escaped

\* The state process_mnist_data leaves, r being what it computed. uart.write
\* either returns or raises; nothing in save_mnist or touch_handler catches,
\* so a raise ends the callback there.
ProcessEffect(r) ==
    IF ~r.found
    THEN /\ pc' = "reset"
         /\ saveRec' = [saveRec EXCEPT !.outcome = "NoDrawingFound", !.bounds = r.bounds]
         /\ UNCHANGED <<uart, escaped>>
    ELSE /\ uart' = Append(uart, r.data_bytes)
         /\ \E ok \in BOOLEAN :
              IF ok
              THEN /\ pc' = "reset"
                   /\ saveRec' = [saveRec EXCEPT !.outcome = "sent", !.sample = r.sample,
                                                 !.bounds = r.bounds]
                   /\ UNCHANGED escaped
              ELSE /\ pc' = "idle"
                   /\ escaped' = TRUE
                   /\ saveRec' = [saveRec EXCEPT !.state = "aborted",
                                                 !.outcome = "write_failed",
                                                 !.sample = r.sample,
                                                 !.bounds = r.bounds]

\* save_mnist: self.process_mnist_data()
SaveProcess ==
    /\ pc = "process"
    /\ ProcessEffect(process_mnist_data(variant, buffer))
    /\ UNCHANGED <<locals, variant, buffer, last_x, last_y, freeze, Touch_items, Touch_callbacks,
                   penDown, nEvents, log>>

\* reset_canvas without self.buffer = bytearray(9600)
SaveReset_KeepBuffer ==
    /\ pc = "reset"
    /\ last_x' = None
    /\ last_y' = None
    /\ Touch_items' = Append(Touch_items, SaveButton(variant))
    /\ Touch_callbacks' = Append(Touch_callbacks, "save_mnist")
    /\ pc' = "unfreeze"
    /\ UNCHANGED <<locals, variant, buffer, freeze, uart, escaped, penDown, nEvents, log, saveRec>>

\* save_mnist: self.reset_canvas(), which ends in initialize_ui()
SaveReset ==
    /\ pc = "reset"
    /\ buffer' = EmptyBuffer
    /\ last_x' = None
    /\ last_y' = None
    /\ Touch_items' = Append(Touch_items, SaveButton(variant))
    /\ Touch_callbacks' = Append(Touch_callbacks, "save_mnist")
    /\ pc' = "unfreeze"
    /\ UNCHANGED <<locals, variant, freeze, uart, escaped, penDown, nEvents, log, saveRec>>

\* save_mnist: self.freeze = False, and the return of touch_handler
SaveEnd ==
    /\ pc = "unfreeze"
    /\ freeze' = FALSE
    /\ pc' = "idle"
    /\ saveRec' = [saveRec EXCEPT !.state = "done"]
    /\ UNCHANGED <<locals, variant, buffer, last_x, last_y, Touch_items, Touch_callbacks,
                   uart, escaped, penDown, nEvents, log>>

Next ==
    \/ \E t \in RawTouches(variant) : Touch(t[1], t[2])
    \/ Release
    \/ SaveProcess
    \/ SaveReset
    \/ SaveEnd

Spec == Init /\ [][Next]_vars

----------------------------------------------------------------------------
(* draw_line on its own: the cursor starts on any point of a grid around the *)
(* canvas origin and draw_line is called with any target of the grid        *)

LinePoints == { <<x, y>> : x \in (0 - 1)..(GridMax + 3), y \in (0 - 1)..GridMax }

InitLine ==
    /\ variant \in {"final", "old"}
    /\ buffer = EmptyBuffer
    /\ \E p \in LinePoints : last_x = p[1] /\ last_y = p[2]
    /\ freeze = FALSE
    /\ Touch_items = <<SaveButton(variant)>>
    /\ Touch_callbacks = <<"save_mnist">>
    /\ uart = <<>>
    /\ pc = "idle"
    /\ escaped = FALSE
    /\ penDown = FALSE
    /\ nEvents = 0
    /\ log = NoLog
    /\ saveRec = NoSave
    /\ locals = NoLocals

\* The state draw_line(x, y) leaves, r being the buffer and the cursor at the
\* break of its loop
LineEffect(x, y, r) ==
    /\ buffer' = r.buffer
    /\ last_x' = r.last_x
    /\ last_y' = r.last_y
    /\ log' = [NoLog EXCEPT !.op = "draw_line", !.prev_x = last_x, !.prev_y = last_y,
                            !.x = x, !.y = y, !.line = TRUE, !.pts = r.pts]

\* self.draw_line(x, y), called once in a behaviour
DrawLine(x, y) ==
    /\ nEvents = 0
    /\ LineEffect(x, y, draw_line(variant, buffer, last_x, last_y, x, y))
    /\ nEvents' = nEvents + 1
    /\ UNCHANGED <<locals, variant, freeze, Touch_items, Touch_callbacks, uart, pc, escaped,
                   penDown, saveRec>>

NextLine == \E p \in LinePoints : DrawLine(p[1], p[2])

SpecLine == InitLine /\ [][NextLine]_vars

----------------------------------------------------------------------------
(* process_drawing step by step: one call from any cursor to any target of  *)
(* a grid around the canvas origin, the while loop of draw_line taking one  *)
(* iteration per step. locals holds x and y, the arguments of               *)
(* process_drawing and of draw_line, and dx, dy, sx, sy and err of draw_line *)

LoopPoints == { <<x, y>> : x \in (0 - 1)..GridMax, y \in (0 - 1)..GridMax }

InitLoop ==
    /\ variant \in {"final", "old"}
    /\ buffer = EmptyBuffer
    /\ \/ last_x = None /\ last_y = None
       \/ \E p \in LoopPoints : last_x = p[1] /\ last_y = p[2]
    /\ freeze = FALSE
    /\ Touch_items = <<SaveButton(variant)>>
    /\ Touch_callbacks = <<"save_mnist">>
    /\ uart = <<>>
    /\ pc = "idle"
    /\ escaped = FALSE
    /\ penDown = FALSE
    /\ nEvents = 0
    /\ log = NoLog
    /\ saveRec = NoSave
    /\ locals = NoLocals

\* process_drawing(x, y) up to its last statement when there is no last
\* point, and up to the while of draw_line otherwise
ProcessDrawing(x, y) ==
    /\ pc = "idle" /\ nEvents = 0
    /\ IF last_x = None
       THEN /\ buffer' = draw_point(variant, buffer, x, y)
            /\ locals' = [NoLocals EXCEPT !.x = x, !.y = y]
            /\ pc' = "assign"
       ELSE /\ locals' = [x |-> x, y |-> y,
                          dx |-> Abs(x - last_x),
                          dy |-> Abs(y - last_y),
                          sx |-> IF x > last_x THEN 1 ELSE 0 - 1,
                          sy |-> IF y > last_y THEN 1 ELSE 0 - 1,
                          err |-> Abs(x - last_x) - Abs(y - last_y)]
            /\ pc' = "loop"
            /\ UNCHANGED buffer
    /\ log' = [NoLog EXCEPT !.op = "process_drawing", !.prev_x = last_x,
                            !.prev_y = last_y, !.x = x, !.y = y,
                            !.line = (last_x # None),
                            !.pts = IF last_x = None THEN <<<<x, y>>>> ELSE <<>>]
    /\ nEvents' = nEvents + 1
    /\ UNCHANGED <<variant, last_x, last_y, freeze, Touch_items, Touch_callbacks, uart,
                   escaped, penDown, saveRec>>

\* The control of one iteration of the while loop of draw_line: the break
\* when the cursor is the target, the two tests on e2 otherwise
LoopTest ==
    /\ pc = "loop"
    /\ IF last_x = locals.x /\ last_y = locals.y
       THEN /\ pc' = "assign"
            /\ UNCHANGED <<last_x, last_y, locals>>
       ELSE /\ last_x' = StepX(last_x, locals.dy, locals.sx, locals.err)
            /\ last_y' = StepY(last_y, locals.dx, locals.sy, locals.err)
            /\ locals' = [locals EXCEPT !.err = StepErr(locals.dx, locals.dy, locals.err)]
            /\ UNCHANGED pc

\* One iteration of the while loop of draw_line: draw_point at the cursor,
\* then the break, or the two tests on e2
LoopIter ==
    /\ LoopTest
    /\ buffer' = draw_point(variant, buffer, last_x, last_y)
    /\ log' = [log EXCEPT !.pts = Append(@, <<last_x, last_y>>)]
    /\ UNCHANGED <<variant, freeze, Touch_items, Touch_callbacks, uart, escaped, penDown,
                   nEvents, saveRec>>

\* self.last_x, self.last_y = x, y and the return of process_drawing
AssignLast ==
    /\ pc = "assign"
    /\ last_x' = locals.x
    /\ last_y' = locals.y
    /\ locals' = NoLocals
    /\ pc' = "done"
    /\ UNCHANGED <<variant, buffer, freeze, Touch_items, Touch_callbacks, uart, escaped,
                   penDown, nEvents, log, saveRec>>

NextLoop ==
    \/ \E p \in LoopPoints : ProcessDrawing(p[1], p[2])
    \/ LoopIter
    \/ AssignLast

\* The interpreter keeps executing a call that has a next statement: the
\* running loop takes its next iteration (an iteration is the step of the
\* behaviour that satisfies LoopTest) and the call reaches its return
SpecLoop ==
    /\ InitLoop
    /\ [][NextLoop]_vars
    /\ WF_<<pc, last_x, last_y>>(LoopTest)
    /\ WF_pc(AssignLast)

----------------------------------------------------------------------------
(* set_pixel and get_pixel on their own: set_pixel is called on a FrameBuffer *)
(* with coordinates at the corners of the canvas, across byte boundaries, in  *)
(* the drawing window and outside the canvas                                  *)

PixelPoints ==
    { <<0, 0>>, <<7, 0>>, <<8, 0>>, <<319, 0>>, <<0, 1>>, <<319, 239>>, <<0, 239>>,
      <<141, 101>>, <<0 - 1, 0>>, <<0, 0 - 1>>, <<320, 0>>, <<0, 240>>, <<320, 240>>,
      <<0 - 3, 5>> }

InitPixel ==
    /\ variant \in {"final", "old"}
    /\ buffer \in { EmptyBuffer, set_pixel(EmptyBuffer, 1, 0, TRUE),
                     set_pixel(EmptyBuffer, 318, 239, TRUE) }
    /\ last_x = None
    /\ last_y = None
    /\ freeze = FALSE
    /\ Touch_items = <<SaveButton(variant)>>
    /\ Touch_callbacks = <<"save_mnist">>
    /\ uart = <<>>
    /\ pc = "idle"
    /\ escaped = FALSE
    /\ penDown = FALSE
    /\ nEvents = 0
    /\ log = NoLog
    /\ saveRec = NoSave
    /\ locals = NoLocals

\* self.set_pixel(x, y, state)
SetPixel(x, y, state) ==
    /\ nEvents < MaxPixelOps
    /\ log.op \in {"init", "set_pixel"}
    /\ buffer' = set_pixel(buffer, x, y, state)
    /\ log' = [NoLog EXCEPT !.op = "set_pixel", !.x = x, !.y = y, !.state = state]
    /\ nEvents' = nEvents + 1
    /\ UNCHANGED <<locals, variant, last_x, last_y, freeze, Touch_items, Touch_callbacks, uart,
                   pc, escaped, penDown, saveRec>>

\* self.get_pixel(x, y), the last call of a behaviour
GetPixel(x, y) ==
    /\ log.op \in {"init", "set_pixel"}
    /\ log' = [NoLog EXCEPT !.op = "get_pixel", !.x = x, !.y = y,
                            !.value = get_pixel(buffer, x, y)]
    /\ UNCHANGED <<locals, variant, buffer, last_x, last_y, freeze, Touch_items, Touch_callbacks,
                   uart, pc, escaped, penDown, nEvents, saveRec>>

\* self.draw_point(x, y), the last call of a behaviour
DrawPoint(x, y) ==
    /\ log.op \in {"init", "set_pixel"}
    /\ buffer' = draw_point(variant, buffer, x, y)
    /\ log' = [NoLog EXCEPT !.op = "draw_point", !.x = x, !.y = y]
    /\ UNCHANGED <<locals, variant, last_x, last_y, freeze, Touch_items, Touch_callbacks, uart,
                   pc, escaped, penDown, nEvents, saveRec>>

NextPixel ==
    \/ \E p \in PixelPoints : SetPixel(p[1], p[2], TRUE)
    \/ \E p \in PixelPoints : GetPixel(p[1], p[2])
    \/ \E p \in PixelPoints : DrawPoint(p[1], p[2])

SpecPixel == InitPixel /\ [][NextPixel]_vars

----------------------------------------------------------------------------
(* The extractors on their own: a FrameBuffer with a few set pixels, in and   *)
(* around the drawing window for main_final.py and near the canvas origin for *)
(* mainESPold.py, and one call of an extraction step                          *)

InkPoints(v) ==
    IF v = "final"
    THEN { <<140, 100>>, <<167, 127>>, <<147, 100>>, <<148, 100>>, <<153, 113>>,
           <<141, 101>>, <<139, 100>>, <<168, 127>>, <<140, 99>>, <<167, 128>> }
    ELSE { <<0, 5>>, <<3, 0>>, <<10, 10>>, <<12, 7>>, <<0, 0>>, <<5, 5>>,
           <<27, 27>>, <<28, 3>>, <<1, 1>>, <<20, 14>> }

\* The FrameBuffer after set_pixel(x, y, True) for every (x, y) of S
RECURSIVE Paint(_, _)
Paint(buf, S) ==
    IF S = {} THEN buf
    ELSE Paint(set_pixel(buf, (CHOOSE p \in S : TRUE)[1], (CHOOSE p \in S : TRUE)[2], TRUE),
               S \ {CHOOSE p \in S : TRUE})

InitExtract ==
    /\ variant \in {"final", "old"}
    /\ \E S \in SUBSET InkPoints(variant) :
          Cardinality(S) <= MaxInk /\ buffer = Paint(EmptyBuffer, S)
    /\ last_x = None
    /\ last_y = None
    /\ freeze = FALSE
    /\ Touch_items = <<SaveButton(variant)>>
    /\ Touch_callbacks = <<"save_mnist">>
    /\ uart = <<>>
    /\ pc = "idle"
    /\ escaped = FALSE
    /\ penDown = FALSE
    /\ nEvents = 0
    /\ log = NoLog
    /\ saveRec = NoSave
    /\ locals = NoLocals

\* What stays as it is in a step of SpecExtract
ExtractFrame ==
    UNCHANGED <<locals, variant, buffer, last_x, last_y, freeze, Touch_items, Touch_callbacks,
                uart, pc, escaped, penDown, nEvents>>

\* main_final.py: self.extract_mnist_region()
ExtractRegion ==
    /\ variant = "final"
    /\ log.op = "init"
    /\ log' = [NoLog EXCEPT !.op = "extract_mnist_region"]
    /\ saveRec' = [NoSave EXCEPT !.fb0 = buffer, !.sample = extract_mnist_region(buffer)]
    /\ ExtractFrame

\* The origins of the 28x28 box an extractor is applied to
BoxOrigins(v) ==
    IF v = "final"
    THEN { <<140, 100>>, <<139, 99>>, <<141, 100>>, <<160, 120>> }
    ELSE { <<0, 0>>, <<0 - 5, 0 - 5>>, <<1, 0>>, <<10, 7>> }

\* mainESPold.py: self.scale_and_convert_to_bytearray(x0, y0, 28, 28), a source
\* box of the size of the Sample
ScaleBox(x0, y0) ==
    /\ log.op = "init"
    /\ log' = [NoLog EXCEPT !.op = "scale_and_convert_to_bytearray", !.x = x0, !.y = y0]
    /\ saveRec' = [NoSave EXCEPT !.fb0 = buffer,
                                 !.sample = scale_and_convert_to_bytearray(buffer, x0, y0,
                                                                           28, 28)]
    /\ ExtractFrame

\* process_mnist_data: the bounds scan
ScanCanvas ==
    /\ log.op = "init"
    /\ log' = [NoLog EXCEPT !.op = "scan"]
    /\ saveRec' = [NoSave EXCEPT !.fb0 = buffer, !.bounds = ScanBounds(buffer)]
    /\ ExtractFrame

NextExtract ==
    \/ ExtractRegion
    \/ ScanCanvas
    \/ \E o \in BoxOrigins(variant) : ScaleBox(o[1], o[2])

SpecExtract == InitExtract /\ [][NextExtract]_vars

----------------------------------------------------------------------------
(* Properties of the capture pipeline *)

\* A step in which touch_handler ran
TouchStep == nEvents' = nEvents + 1

\* C1: whenever the freeze latch is set, touch_handler called with any raw
\* (x, y) leaves the FrameBuffer, the DrawCursor and the region registry
\* unchanged and invokes no region action.
C1_FrozenTouchIgnored ==
    [][(TouchStep /\ freeze) =>
          /\ buffer' = buffer
          /\ last_x' = last_x /\ last_y' = last_y
          /\ Touch_items' = Touch_items /\ Touch_callbacks' = Touch_callbacks
          /\ log'.invoked = <<>> /\ ~log'.forwarded /\ log'.pts = <<>>
          /\ pc' = pc /\ freeze' /\ saveRec' = saveRec /\ uart' = uart]_vars

\* A touch on a point of the drawing window was discarded while a save was
\* running over a FrameBuffer that holds ink.
C1_Witness ==
    /\ log.op = "touch" /\ log.frozen
    /\ pc = "process" /\ buffer # EmptyBuffer
    /\ log.x = 150 /\ log.y = 110

\* C2: the serial frame written by a save action is always one 0x00 padding
\* byte followed by the 98-byte Sample (99 bytes, first byte 0x00), in every
\* variant of the drawing UI and for every Sample.
C2_FrameIsPaddedSample ==
    /\ \A i \in 1..Len(uart) : Len(uart[i]) = 99 /\ uart[i][1] = 0
    /\ saveRec.outcome \in {"sent", "write_failed"} =>
          /\ Len(saveRec.sample) = 98
          /\ uart[Len(uart)] = <<0>> \o saveRec.sample

\* The step in which save_mnist returns from process_mnist_data
ProcessStep == pc = "process" /\ pc' # "process"

\* The step in which save_mnist clears the latch and returns
SaveEndStep == pc = "unfreeze" /\ pc' = "idle"

\* C3: in the BoundingBoxScaled variant a save action ends in NoDrawingFound
\* exactly when the FrameBuffer holds no set pixel; when it does, nothing is
\* written to the serial link, the latch ends false and the FrameBuffer is
\* what it was before the save.
C3_NoDrawingIffEmpty ==
    [][(variant = "old" /\ SaveEndStep) =>
          /\ (saveRec.outcome = "NoDrawingFound") <=> (InkIndices(saveRec.fb0) = {})
          /\ saveRec.outcome = "NoDrawingFound" =>
                /\ Len(uart') = saveRec.writes0
                /\ ~freeze'
                /\ buffer' = saveRec.fb0]_vars

\* C4 as stated: in the FixedWindow variant a save action never fails: for
\* every FrameBuffer, an empty one included, it produces a 98-byte Sample and
\* transmits it; with no pixel set the Sample is all zero.
C4_SaveAlwaysTransmits ==
    [][(variant = "final" /\ ProcessStep) =>
          /\ Len(saveRec'.sample) = 98
          /\ uart' = Append(uart, <<0>> \o saveRec'.sample)
          /\ InkIndices(buffer) = {} => saveRec'.sample = ZeroBytes(98)]_vars

\* C4 amended: in the FixedWindow variant a save action over a FrameBuffer
\* with at least one set pixel produces a 98-byte Sample and passes it, behind
\* one 0x00 byte, to the serial write; over an empty FrameBuffer it ends in
\* "No drawing found", produces no Sample and writes nothing.
C4_SaveTransmitsIffInk ==
    [][(variant = "final" /\ ProcessStep) =>
          IF InkIndices(buffer) = {}
          THEN /\ saveRec'.outcome = "NoDrawingFound"
               /\ saveRec'.sample = <<>>
               /\ uart' = uart
          ELSE /\ saveRec'.outcome \in {"sent", "write_failed"}
               /\ Len(saveRec'.sample) = 98
               /\ uart' = Append(uart, <<0>> \o saveRec'.sample)]_vars

\* In the FixedWindow variant a save over an empty FrameBuffer has ended in
\* "No drawing found", after an earlier save of a drawing wrote its frame.
C4_Witness ==
    /\ variant = "final"
    /\ saveRec.outcome = "NoDrawingFound"
    /\ Len(uart) = 1 /\ Len(uart[1]) = 99

\* C5: the DrawCursor has no last point at the start of every stroke: the
\* first touch after a release draws a single point and no line is rasterized
\* from the previous stroke's last point; the last point is also absent after
\* a canvas reset.
C5_StrokeStartsFresh ==
    /\ (log.op = "touch" /\ log.forwarded /\ log.newStroke) =>
          log.pts = <<<<log.x, log.y>>>>
    /\ pc = "unfreeze" => last_x = None /\ last_y = None

\* C6: every save action ends with the latch false and the system accepting
\* touches again, also when the serial write fails: the latch is never set
\* with no save in progress, and no failure escapes the save action.
C6_LatchReleased ==
    /\ pc = "idle" => ~freeze
    /\ ~escaped

\* The list positions of the registered regions that contain (x, y)
RegionsAt(x, y) ==
    { i \in 1..Len(Touch_items) :
        x \in Touch_items[i].x_range /\ y \in Touch_items[i].y_range }

\* C7: for an unfrozen touch whose transposed point (x, y) = (yRaw, xRaw) lies
\* in at least one registered region, exactly one action is invoked, that of
\* the first such region in registration order, and the touch is not forwarded
\* to the drawing pipeline: no point or line is drawn for it.
C7_FirstRegionOnly ==
    [][(TouchStep /\ ~freeze /\ RegionsAt(log'.raw_y, log'.raw_x) # {}) =>
          /\ log'.invoked = <<Least(RegionsAt(log'.raw_y, log'.raw_x))>>
          /\ Touch_callbacks[log'.invoked[1]] = "save_mnist"
          /\ pc' = "process"
          /\ ~log'.forwarded /\ log'.pts = <<>>
          /\ buffer' = buffer /\ last_x' = last_x /\ last_y' = last_y]_vars

\* In the whole-canvas variant a touch on the canvas point (290, 210), which
\* two registered regions contain, has called save_mnist over a drawing.
C7_Witness ==
    /\ variant = "old"
    /\ log.op = "touch" /\ log.invoked = <<1>>
    /\ log.raw_x = 210 /\ log.raw_y = 290
    /\ Len(Touch_items) = 2
    /\ pc = "process"

\* C8: in the restricted variant an unfrozen touch that matches no region is
\* forwarded to the drawing pipeline if and only if its transposed point lies
\* in the 28x28 rectangle with origin (140, 100) that the UI draws and
\* FixedWindow samples; a touch outside it leaves FrameBuffer and DrawCursor
\* unchanged.
C8_ForwardedIffInWindow ==
    (variant = "final" /\ log.op = "touch" /\ ~log.frozen /\ log.invoked = <<>>) =>
        /\ log.forwarded <=> (/\ log.raw_y \in d_x..(d_x + draw_area - 1)
                              /\ log.raw_x \in d_y..(d_y + draw_area - 1))
        /\ ~log.forwarded => (log.pts = <<>> /\ last_x = log.prev_x /\ last_y = log.prev_y)

\* A step in which draw_line ran on its own
LineStep == log'.op = "draw_line"

\* Two drawn points that differ by at most 1 in x and in y
Adjacent(p, q) == Abs(p[1] - q[1]) <= 1 /\ Abs(p[2] - q[2]) <= 1

\* C9: for every pair of integer endpoints (last point, target), draw_line
\* draws a sequence of points whose first element is the last point and whose
\* final element is the target, and any two consecutive drawn points differ by
\* at most 1 in x and at most 1 in y.
C9_LineConnectsEndpoints ==
    [][LineStep =>
          /\ Len(log'.pts) >= 1
          /\ log'.pts[1] = <<last_x, last_y>>
          /\ log'.pts[Len(log'.pts)] = <<log'.x, log'.y>>
          /\ \A i \in 1..(Len(log'.pts) - 1) : Adjacent(log'.pts[i], log'.pts[i + 1])
          /\ last_x' = log'.x /\ last_y' = log'.y]_vars

\* draw_line has run from (-1, -1) to (4, 1), a shallow line of six points
\* that starts outside the canvas.
C9_Witness ==
    /\ log.op = "draw_line"
    /\ log.prev_x = 0 - 1 /\ log.prev_y = 0 - 1
    /\ log.x = 4 /\ log.y = 1
    /\ Len(log.pts) = 6

\* A step in which set_pixel(x, y, True) ran with (x, y) on the canvas
SetStep ==
    /\ log'.op = "set_pixel" /\ log'.state
    /\ 0 <= log'.x /\ log'.x < 320 /\ 0 <= log'.y /\ log'.y < 240

\* The coordinates whose bit lies in byte i of the FrameBuffer
PixelsOfByte(i) == { <<(8 * i + k) % 320, (8 * i + k) \div 320>> : k \in 0..7 }

\* C10: for every (x, y) on the canvas and every FrameBuffer content,
\* set_pixel(x, y, True) followed by get_pixel(x, y) returns True, and set_pixel
\* changes only the bit at linear index idx = y*320+x (byte idx div 8, bit
\* 7 - idx mod 8): every other byte is unchanged and get_pixel returns what it
\* returned before for every other coordinate.
C10_SetThenGet ==
    [][SetStep =>
          LET idx == log'.y * 320 + log'.x
          IN /\ get_pixel(buffer', log'.x, log'.y)
             /\ ByteAt(buffer', idx \div 8) =
                    BitOr(ByteAt(buffer, idx \div 8), 2 ^ (7 - (idx % 8)))
             /\ \A i \in 0..9599 : i # idx \div 8 => ByteAt(buffer', i) = ByteAt(buffer, i)
             /\ \A p \in (PixelsOfByte(idx \div 8) \cup PixelPoints) \ {<<log'.x, log'.y>>} :
                    get_pixel(buffer', p[1], p[2]) = get_pixel(buffer, p[1], p[2])]_vars

\* set_pixel(7, 0, True) has run on a FrameBuffer whose byte 0 already held
\* the bits of (0, 0) and (1, 0): the byte now reads 0xC1.
C10_Witness ==
    /\ log.op = "set_pixel" /\ log.x = 7 /\ log.y = 0
    /\ ByteAt(buffer, 0) = 193

\* (x, y) lies outside [0,320) x [0,240)
OffCanvas(x, y) == ~(0 <= x /\ x < 320 /\ 0 <= y /\ y < 240)

\* C11: for every (x, y) outside [0,320) x [0,240), negative coordinates
\* included, set_pixel raises no error (it subscripts the buffer nowhere) and
\* leaves every byte of the FrameBuffer unchanged, and get_pixel raises no
\* error and returns False.
C11_OffCanvasIgnored ==
    [][(log'.op \in {"set_pixel", "get_pixel"} /\ OffCanvas(log'.x, log'.y)) =>
          /\ PixelIndex(log'.x, log'.y) = {}
          /\ buffer' = buffer
          /\ log'.op = "get_pixel" => ~log'.value
          /\ ~get_pixel(buffer', log'.x, log'.y)]_vars

\* get_pixel(-1, 0) has returned after two set_pixel calls that left (319, 0),
\* the last pixel of row 0, as the only set pixel: (0, 1), the pixel that
\* follows it in the buffer, is unset.
C11_Witness ==
    /\ log.op = "get_pixel" /\ log.x = 0 - 1 /\ log.y = 0
    /\ nEvents = 2
    /\ get_pixel(buffer, 319, 0) /\ ~get_pixel(buffer, 0, 1)
    /\ DOMAIN buffer = {39}

\* Bit k of a Sample: byte k div 8, bit position 7 - k mod 8
SampleBit(sample, k) == Bit(sample[(k \div 8) + 1], 7 - (k % 8)) = 1

\* C12: FixedWindow extraction returns a 98-byte Sample in which, for all
\* 0 <= i, j < 28, bit k = 28*j + i (byte k div 8, bit position 7 - k mod 8)
\* equals get_pixel(140 + i, 100 + j); a FrameBuffer with only the
\* window-origin pixel set yields first byte 0x80 and 97 zero bytes.
C12_SampleIsWindow ==
    log.op = "extract_mnist_region" =>
        /\ Len(saveRec.sample) = 98
        /\ \A n \in 1..98 : saveRec.sample[n] \in 0..255
        /\ \A i \in 0..27 : \A j \in 0..27 :
              SampleBit(saveRec.sample, 28 * j + i) <=> get_pixel(buffer, 140 + i, 100 + j)
        /\ buffer = set_pixel(EmptyBuffer, 140, 100, TRUE) =>
              saveRec.sample = <<128>> \o ZeroBytes(97)

\* extract_mnist_region has run on a FrameBuffer whose set pixels are the two
\* corners (140, 100) and (167, 127) of the window: the Sample starts with
\* 0x80 and ends with 0x01.
C12_Witness ==
    /\ log.op = "extract_mnist_region"
    /\ get_pixel(buffer, 140, 100) /\ get_pixel(buffer, 167, 127)
    /\ saveRec.sample[1] = 128 /\ saveRec.sample[98] = 1

\* The step in which save_mnist returns from reset_canvas
ResetStep == pc = "reset" /\ pc' = "unfreeze"

\* C13: after canvas reset, reached by any sequence of touch and save events,
\* get_pixel is False for every coordinate (every byte of the FrameBuffer is
\* zero) and the DrawCursor has no last point: last_x and last_y are both None.
C13_ResetClears ==
    [][ResetStep =>
          /\ \A i \in 0..9599 : ByteAt(buffer', i) = 0
          /\ InkIndices(buffer') = {}
          /\ \A p \in TouchedPoints(variant) \cup PixelPoints :
                ~get_pixel(buffer', p[1], p[2])
          /\ last_x' = None /\ last_y' = None]_vars

\* reset_canvas has returned in a save triggered by the third touch: the
\* FrameBuffer held ink and the cursor a last point when the save began.
C13_Witness ==
    /\ pc = "unfreeze"
    /\ InkIndices(saveRec.fb0) # {}
    /\ log.op = "touch" /\ log.invoked = <<1>> /\ log.prev_x # None
    /\ nEvents = 3
    /\ saveRec.outcome = "sent"

\* C14: the two extraction strategies pack identically: for every FrameBuffer
\* content and every origin (x0, y0), the scaled extractor applied to a 28x28
\* source box at (x0, y0) (scale 1) returns the same 98 bytes as the
\* fixed-window extractor applied to the window with origin (x0, y0).
C14_ExtractorsAgree ==
    log.op = "scale_and_convert_to_bytearray" =>
        /\ Len(saveRec.sample) = 98
        /\ saveRec.sample = ExtractWindow(buffer, log.x, log.y)
        /\ (log.x = d_x /\ log.y = d_y) => saveRec.sample = extract_mnist_region(buffer)

\* The scaled extractor has run on the box of the drawing window, over a
\* FrameBuffer with ink in the first and in the last byte of the Sample.
C14_Witness ==
    /\ log.op = "scale_and_convert_to_bytearray"
    /\ log.x = 140 /\ log.y = 100
    /\ saveRec.sample[1] = 1 /\ saveRec.sample[98] = 1

\* The minimal bounding box of the set pixels of a non-empty FrameBuffer
BoundingBox(buf) ==
    [min_x |-> Least({ i % 320 : i \in InkIndices(buf) }),
     max_x |-> Greatest({ i % 320 : i \in InkIndices(buf) }),
     min_y |-> Least({ i \div 320 : i \in InkIndices(buf) }),
     max_y |-> Greatest({ i \div 320 : i \in InkIndices(buf) })]

\* C15: for every non-empty FrameBuffer, the bounds computed by the
\* full-canvas scan in process_mnist_data are the minimal bounding box: min_x
\* and max_x the smallest and largest x, min_y and max_y the smallest and
\* largest y over all set pixels, also when set pixels lie in column 0 or
\* row 0.
C15_BoundsAreBoundingBox ==
    (log.op = "scan" /\ InkIndices(buffer) # {}) =>
        saveRec.bounds = BoundingBox(buffer)

\* The pixel C16 gives destination cell (dx, dy) of a drawing with bounds b:
\* the source region spans columns b.min_x - 5 .. b.max_x + 5 and rows
\* b.min_y - 5 .. b.max_y + 5, so boxWidth = max_x - min_x + 11 and boxHeight =
\* max_y - min_y + 11, and the source coordinate is the floor.
ExpandedBoxPixel(buf, b, dx, dy) ==
    LET x0 == b.min_x - 5
        y0 == b.min_y - 5
        boxWidth == (b.max_x + 5) - (b.min_x - 5) + 1
        boxHeight == (b.max_y + 5) - (b.min_y - 5) + 1
        sx == (28 * x0 + dx * boxWidth) \div 28
        sy == (28 * y0 + dy * boxHeight) \div 28
    IN IF 0 <= sx /\ sx < 320 /\ 0 <= sy /\ sy < 240 THEN get_pixel(buf, sx, sy) ELSE FALSE

\* C16: in BoundingBoxScaled extraction the resampled source region is the
\* bounding box expanded by 5 pixels on each of its four sides (columns
\* min_x-5 .. max_x+5, rows min_y-5 .. max_y+5, inclusive), and destination
\* cell (dx, dy) takes the pixel at (floor(x0 + dx*boxWidth/28),
\* floor(y0 + dy*boxHeight/28)) with (x0, y0) = (min_x-5, min_y-5),
\* out-of-canvas source coordinates reading as unset.
C16_ExpandedBoxResampled ==
    (variant = "old" /\ saveRec.outcome \in {"sent", "write_failed"}) =>
        \A dx \in 0..27 : \A dy \in 0..27 :
            SampleBit(saveRec.sample, 28 * dy + dx)
                <=> ExpandedBoxPixel(saveRec.fb0, saveRec.bounds, dx, dy)

\* C17: the region registry is built once: after any sequence of touch events
\* and save actions, the ordered list of registered regions and the list of
\* their actions still hold exactly the entries registered at the first UI
\* build (one save-button region), with equal lengths.
C17_RegistryBuiltOnce ==
    /\ Touch_items = <<SaveButton(variant)>>
    /\ Touch_callbacks = <<"save_mnist">>
    /\ Len(Touch_items) = Len(Touch_callbacks)

\* The linear indices of the cells of the plus-shaped brush at (x, y) that lie
\* inside [0,320) x [0,240)
BrushInside(x, y) ==
    { c[2] * 320 + c[1] :
        c \in { d \in { <<x, y>>, <<x + 1, y>>, <<x - 1, y>>, <<x, y + 1>>, <<x, y - 1>> } :
                  ~OffCanvas(d[1], d[2]) } }

\* A step in which draw_point ran with the plus-shaped brush
BrushStep == log'.op = "draw_point" /\ variant = "final"

\* C18 as stated: drawing a point at any integer (x, y) with the plus-shaped
\* brush sets exactly those of the five cells (x,y), (x+1,y), (x-1,y), (x,y+1),
\* (x,y-1) that lie inside [0,320) x [0,240); cells outside the canvas are
\* dropped, none is moved into range, and every other bit is unchanged.
C18_BrushClipsPerCell ==
    [][BrushStep =>
          InkIndices(buffer') = InkIndices(buffer) \cup BrushInside(log'.x, log'.y)]_vars

\* C18 amended: drawing a point at an integer (x, y) inside [0,320) x [0,240)
\* with the plus-shaped brush sets exactly those of the five cells that lie
\* inside the canvas, and every other bit is unchanged; a point at (x, y)
\* outside the canvas sets nothing, also where cells of its brush lie inside.
C18_BrushClipsInsideCentre ==
    [][BrushStep =>
          IF OffCanvas(log'.x, log'.y)
          THEN buffer' = buffer
          ELSE InkIndices(buffer') = InkIndices(buffer) \cup BrushInside(log'.x, log'.y)]_vars

\* draw_point(319, 0) has run with the plus-shaped brush in the top right
\* corner of an empty canvas: (319, 0), (318, 0) and (319, 1) are set, and
\* (0, 1), which follows (319, 0) in the buffer, is not.
C18_Witness ==
    /\ log.op = "draw_point" /\ variant = "final"
    /\ log.x = 319 /\ log.y = 0
    /\ InkIndices(buffer) = {318, 319, 639}

\* The last 98 bytes of a serial frame
Payload(frame) == SubSeq(frame, Len(frame) - 97, Len(frame))

\* C19: within one save action that finds ink, the steps occur in the order
\* freeze set, extraction, one serial write, canvas reset, freeze cleared:
\* exactly one frame is written per save, it is written before the FrameBuffer
\* is cleared, and its payload is the Sample of the FrameBuffer as it was when
\* the save was triggered.
C19_SaveStepsInOrder ==
    [][/\ (ProcessStep /\ saveRec'.outcome # "NoDrawingFound") =>
             /\ freeze /\ freeze'
             /\ saveRec.outcome = "none" /\ Len(uart) = saveRec.writes0
             /\ buffer = saveRec.fb0 /\ buffer' = buffer /\ InkIndices(buffer) # {}
             /\ Len(uart') = Len(uart) + 1
             /\ Payload(uart'[Len(uart')]) =
                    ExtractSample(variant, saveRec.fb0, ScanBounds(saveRec.fb0))
       /\ (ResetStep /\ saveRec.outcome # "NoDrawingFound") =>
             /\ freeze /\ freeze'
             /\ saveRec.outcome = "sent"
             /\ uart' = uart /\ Len(uart) = saveRec.writes0 + 1
             /\ buffer' = EmptyBuffer
       /\ (SaveEndStep /\ saveRec.outcome # "NoDrawingFound") =>
             /\ freeze /\ ~freeze'
             /\ buffer = EmptyBuffer
             /\ uart' = uart /\ Len(uart) = saveRec.writes0 + 1
             /\ Payload(uart[Len(uart)]) =
                    ExtractSample(variant, saveRec.fb0, ScanBounds(saveRec.fb0))]_vars

\* A save of a drawing has run through all its steps in the FixedWindow
\* variant, a touch having been discarded meanwhile: one frame is written, the
\* FrameBuffer is empty and the latch is clear.
C19_Witness ==
    /\ variant = "final"
    /\ saveRec.state = "done" /\ saveRec.outcome = "sent"
    /\ InkIndices(saveRec.fb0) # {}
    /\ log.op = "touch" /\ log.frozen
    /\ Len(uart) = 1 /\ buffer = EmptyBuffer /\ ~freeze /\ pc = "idle"

\* A save action is in progress: save_mnist has set the latch and has not yet
\* cleared it
SaveInProgress == pc \in {"process", "reset", "unfreeze"}

\* C20: for every interleaving in which touch interrupts fire while a save
\* action is in progress (between the latch being set and being cleared), each
\* such event is discarded: it does not start a second save, does not change
\* FrameBuffer or DrawCursor, and is not replayed later (a step in which no
\* handler runs draws nothing); at most one save action is in progress at any
\* time.
C20_TouchDuringSaveDiscarded ==
    [][/\ (TouchStep /\ SaveInProgress) =>
             /\ freeze /\ log'.frozen
             /\ log'.invoked = <<>> /\ ~log'.forwarded /\ log'.pts = <<>>
             /\ buffer' = buffer /\ last_x' = last_x /\ last_y' = last_y
             /\ pc' = pc /\ saveRec' = saveRec /\ uart' = uart
       /\ (TouchStep /\ log'.invoked # <<>>) =>
             /\ ~SaveInProgress /\ ~freeze
             /\ saveRec.state # "running"
       /\ ~TouchStep =>
             /\ log' = log
             /\ buffer' \in {buffer, EmptyBuffer}
             /\ <<last_x', last_y'>> \in {<<last_x, last_y>>, <<None, None>>}
       /\ SaveInProgress => freeze /\ saveRec.state = "running"]_vars

\* A second touch on the save button has been discarded after reset_canvas
\* and before the latch was cleared, in a save that wrote its frame.
C20_Witness ==
    /\ pc = "unfreeze" /\ freeze
    /\ log.op = "touch" /\ log.frozen /\ log.raw_x = 210 /\ log.raw_y = 290
    /\ saveRec.outcome = "sent" /\ Len(uart) = 1
    /\ Len(Touch_items) = 2

\* The stepwise call has returned
Returned == pc = "done"

\* C21: for every last point and every integer target (x, y), process_drawing
\* terminates (the draw_line loop reaches the target after finitely many steps
\* for every slope and direction, including equal endpoints) and ends with the
\* cursor's last point equal to (x, y).
C21_ProcessDrawingTerminates ==
    /\ (log.op = "process_drawing") ~> Returned
    /\ [](Returned => (last_x = log.x /\ last_y = log.y))
    /\ [](pc = "assign" /\ log.line => (last_x = log.x /\ last_y = log.y))

\* process_drawing has returned from a steep line drawn backwards, from
\* (4, 5) to (1, -1), after seven iterations of the loop.
C21_Witness ==
    /\ Returned
    /\ log.op = "process_drawing" /\ log.line
    /\ log.prev_x = 4 /\ log.prev_y = 5
    /\ log.x = 1 /\ log.y = 0 - 1
    /\ Len(log.pts) = 7
    /\ last_x = 1 /\ last_y = 0 - 1

\* The set pixels of a FrameBuffer, as points
InkPixels(buf) == { <<i % 320, i \div 320>> : i \in InkIndices(buf) }

\* The sampled window [140,168) x [100,128)
InWindow(p) ==
    /\ d_x <= p[1] /\ p[1] < d_x + draw_area
    /\ d_y <= p[2] /\ p[2] < d_y + draw_area

\* The number of set bits of a Sample
SampleBits(sample) == Cardinality({ k \in 0..783 : SampleBit(sample, k) })

\* C22: in the restricted (FixedWindow) variant, after any sequence of touch
\* events every set pixel of the FrameBuffer lies inside the sampled window
\* [140,168) x [100,128), so the Sample transmitted by a save contains all the
\* ink on the canvas: it has as many set bits as the FrameBuffer the save found.
C22_InkInsideWindow ==
    variant = "final" =>
        /\ \A p \in InkPixels(buffer) : InWindow(p)
        /\ saveRec.outcome = "sent" =>
               /\ Len(saveRec.sample) = 98
               /\ SampleBits(saveRec.sample) = Cardinality(InkIndices(saveRec.fb0))

====
